---- MODULE Spec2Model ----
(***************************************************************************)
(* Withdrawal order batching: withdraw(account, items) of codeReview.ts.   *)
(* One account, its ORDER and INVENTORY tables, and concurrent callers of  *)
(* withdraw.  A call has two suspension points (the lookup query and the   *)
(* transactional write); everything between them is local computation.     *)
(***************************************************************************)
EXTENDS Integers, Sequences, FiniteSets, TLC

\* ------------------------------------------------------------------ bounds
\* withdraw calls made in one behaviour
MaxCalls == 2
\* inventory items of the account
NumItems == 60
\* inventory items of the account when calls at the size limit are made
LargeItems == 413

\* ------------------------------------------------------- program constants
SHIPPING_MAX_ITEMS == 15
MaxItemsPerCall == 200

\* the concurrent callers of withdraw for the account
Callers == {1, 2}
\* item counts a caller submits
ItemCounts == {0, 3, 5, 10, 15, 32}
\* item counts of the PENDING order the account may already have (0: none)
InitialCounts == {0, 12}
\* retries of one call after a cancelled write
MaxRetries == 1
\* size of the PENDING order the account starts with, while orders time out
EnvInitialCounts == {3}
\* item counts a caller submits while orders time out or are cancelled
EnvCounts == {3, 10}
\* item counts a caller submits at the size limit
LargeCounts == {MaxItemsPerCall, MaxItemsPerCall + 1}

\* TcgOrderStatus, InventoryItemStatus
PENDING == "PENDING"
PROCESSING == "PROCESSING"
CANCELLED == "CANCELLED"
SHIPPED == "SHIPPED"
UNFULFILLED == "UNFULFILLED"
WITHDRAWING == "WITHDRAWING"
WITHDRAWN == "WITHDRAWN"

VARIABLES
  orderTable,    \* ORDER table: pk -> [pk, status, items]
  inventory,     \* INVENTORY table: item -> status
  now,           \* clock: number of calls started so far
  nextItem,      \* first inventory item not yet submitted by any caller
  pc,            \* per caller: idle, lookup, write, returned, failed
  items,         \* per caller: the items argument (sequence of item keys)
  itemStatus,    \* per caller: status field of each passed item object
  shippingAddress, \* per caller: account.shippingAddress is present
  date,          \* per caller: date taken at the start of the call
  len,           \* per caller: pendingOrder.items.length as read
  pendingOrder,  \* per caller: the object returned by getPendingOrder
  params,        \* per caller: params.TransactItems
  orders,        \* per caller: the orders list
  error,         \* per caller: the error thrown, or "none"
  attempt        \* per caller: re-runs of the withdrawal by its caller so far

vars == <<orderTable, inventory, now, nextItem, pc, items, itemStatus,
          shippingAddress, date, len, pendingOrder, params, orders, error,
          attempt>>

\* ------------------------------------------------------------- helpers
Min(a, b) == IF a < b THEN a ELSE b
Max(a, b) == IF a > b THEN a ELSE b

Range(s) == {s[n] : n \in 1..Len(s)}

\* Array.prototype.slice(start, end), negative indices counted from the end
Slice(s, start, end) ==
  LET n == Len(s)
      k == IF start < 0 THEN Max(n + start, 0) ELSE Min(start, n)
      final == IF end < 0 THEN Max(n + end, 0) ELSE Min(end, n)
  IN  IF final > k THEN SubSeq(s, k + 1, final) ELSE <<>>

\* undefined result of getPendingOrder
NoOrder == [pk |-> <<0, 0>>, status |-> "NONE", items |-> <<>>]

\* ulid(date.getTime()) of a monotonic factory: ordered by time, then by call
Ulid(d, n) == <<d, n>>

Newer(a, b) == a[1] > b[1] \/ (a[1] = b[1] /\ a[2] > b[2])

\* query of the account's orders filtered to PENDING, newest first, Limit 1
getPendingOrder(table) ==
  LET pend == {k \in DOMAIN table : table[k].status = PENDING}
  IN  IF pend = {} THEN NoOrder
      ELSE table[CHOOSE k \in pend : \A o \in pend \ {k} : Newer(k, o)]

\* ------------------------------------------------- the write set (params)
OrderUpdate(pk, status, orderItems) ==
  [op |-> "Update", table |-> "ORDER", key |-> pk,
   expected |-> PENDING, status |-> status, items |-> orderItems]

OrderPut(order) ==
  [op |-> "Put", table |-> "ORDER", key |-> order.pk,
   expected |-> "absent", status |-> order.status, items |-> order.items]

getInventoryItemUpdates(its) ==
  [n \in 1..Len(its) |->
     [op |-> "Update", table |-> "INVENTORY", key |-> <<its[n], 0>>,
      expected |-> UNFULFILLED, status |-> WITHDRAWING, items |-> <<>>]]

\* ----------------------------------------- the plan for the pending order
remainderOf(l) == l - SHIPPING_MAX_ITEMS

itemsToAdd(its, l) == Slice(its, 0, remainderOf(l))

statusOfPending(its, l) ==
  IF remainderOf(l) = Len(itemsToAdd(its, l)) THEN PROCESSING ELSE PENDING

\* --------------------------------------------- the plan for the new orders
RECURSIVE itemsForNewOrders(_, _)
itemsForNewOrders(its, i) ==
  IF i < Len(its)
  THEN <<Slice(its, i, i + SHIPPING_MAX_ITEMS)>>
         \o itemsForNewOrders(its, i + SHIPPING_MAX_ITEMS)
  ELSE <<>>

statusOfNew(itemsForNewOrder) == PENDING

newTcgOrder(d, n, itemsForNewOrder) ==
  [pk |-> Ulid(d, n), status |-> statusOfNew(itemsForNewOrder),
   items |-> itemsForNewOrder]

RECURSIVE Flatten(_)
Flatten(ss) == IF ss = <<>> THEN <<>> ELSE Head(ss) \o Flatten(Tail(ss))

\* ----------------------------------------------- the transactional write
\* the order condition reduced to attribute_exists(pk)
ConditionHoldsOrderExists(o, table, inv) ==
  IF o.table = "ORDER"
  THEN IF o.op = "Put" THEN o.key \notin DOMAIN table
       ELSE o.key \in DOMAIN table
  ELSE o.key[1] \in DOMAIN inv /\ inv[o.key[1]] = o.expected

\* the item condition reduced to attribute_exists(pk)
ConditionHoldsItemExists(o, table, inv) ==
  IF o.table = "ORDER"
  THEN IF o.op = "Put" THEN o.key \notin DOMAIN table
       ELSE o.key \in DOMAIN table /\ table[o.key].status = o.expected
  ELSE o.key[1] \in DOMAIN inv

ConditionHolds(o, table, inv) ==
  IF o.table = "ORDER"
  THEN IF o.op = "Put" THEN o.key \notin DOMAIN table
       ELSE o.key \in DOMAIN table /\ table[o.key].status = o.expected
  ELSE o.key[1] \in DOMAIN inv /\ inv[o.key[1]] = o.expected

\* no operation of the write set has a failed condition
AllConditionsHold(ops, table, inv) ==
  {n \in 1..Len(ops) : ~ConditionHolds(ops[n], table, inv)} = {}

\* two operations of the write set name the same record
DuplicateTargets(ops) ==
  Cardinality({<<ops[n].table, ops[n].key>> : n \in 1..Len(ops)}) < Len(ops)

ApplyToOrders(o, table) ==
  IF o.table # "ORDER" THEN table
  ELSE IF o.op = "Put"
  THEN [k \in DOMAIN table \cup {o.key} |->
          IF k = o.key THEN [pk |-> o.key, status |-> o.status, items |-> o.items]
          ELSE table[k]]
  ELSE [table EXCEPT ![o.key] =
          [pk |-> o.key, status |-> o.status, items |-> @.items \o o.items]]

IsOrderOp(o) == o.table = "ORDER"

\* the ORDER operations of the write set, applied in the order submitted
RECURSIVE ApplyOrderOps(_, _)
ApplyOrderOps(ops, table) ==
  IF ops = <<>> THEN table
  ELSE ApplyOrderOps(Tail(ops), ApplyToOrders(Head(ops), table))

OrdersAfter(ops, table) == ApplyOrderOps(SelectSeq(ops, IsOrderOp), table)

\* the INVENTORY operations of the write set: each sets its item's status
InventoryAfter(ops, inv) ==
  [it \in DOMAIN inv |->
     LET hits == {n \in 1..Len(ops) :
                    ops[n].table = "INVENTORY" /\ ops[n].key[1] = it}
     IN  IF hits = {} THEN inv[it]
         ELSE ops[CHOOSE n \in hits : \A m \in hits : m <= n].status]

\* ------------------------------------------------------------------- Init
\* The account has no order yet, or one PENDING order left by an earlier
\* withdraw of c items (lines 95-103, 144), whose items are WITHDRAWING.
Init ==
  /\ \E c \in InitialCounts :
       /\ orderTable = IF c = 0 THEN <<>>
                       ELSE (Ulid(0, 1) :> newTcgOrder(0, 1, [n \in 1..c |-> n]))
       /\ inventory = [it \in 1..NumItems |->
                         IF it <= c THEN WITHDRAWING ELSE UNFULFILLED]
       /\ nextItem = c + 1
  /\ now = 0
  /\ pc = [p \in Callers |-> "idle"]
  /\ items = [p \in Callers |-> <<>>]
  /\ itemStatus = [p \in Callers |-> <<>>]
  /\ shippingAddress = [p \in Callers |-> TRUE]
  /\ date = [p \in Callers |-> 0]
  /\ len = [p \in Callers |-> 0]
  /\ pendingOrder = [p \in Callers |-> NoOrder]
  /\ params = [p \in Callers |-> <<>>]
  /\ orders = [p \in Callers |-> <<>>]
  /\ error = [p \in Callers |-> "none"]
  /\ attempt = [p \in Callers |-> 0]

\* ---------------------------------------------------------------- actions
\* The lists a caller may submit: the next k items nobody has submitted yet,
\* or the list of a call already made (a retry or a double submit).
Submissions ==
  {[n \in 1..k |-> nextItem + n - 1] : k \in {c \in ItemCounts : nextItem + c - 1 <= NumItems}}
    \cup {items[q] : q \in {c \in Callers : items[c] # <<>>}}

\* the size check off by one
tooManyItemsAtLimit(its) == Len(its) >= MaxItemsPerCall

\* items.length > 200
tooManyItems(its) == Len(its) > MaxItemsPerCall

\* the address check left out
missingShippingAddressNever(p) == FALSE

\* !shippingAddress
missingShippingAddress(p) == ~shippingAddress[p]

\* withdraw(account, items) is invoked and the size check runs.
WithdrawOf(p, its, addr) ==
  /\ pc[p] \in {"idle", "returned", "failed"}
  /\ now < MaxCalls
  /\ now' = now + 1
  /\ nextItem' = IF its = <<>> THEN nextItem ELSE Max(nextItem, its[Len(its)] + 1)
  /\ items' = [items EXCEPT ![p] = its]
  /\ itemStatus' = [itemStatus EXCEPT ![p] = [n \in 1..Len(its) |-> UNFULFILLED]]
  /\ shippingAddress' = [shippingAddress EXCEPT ![p] = addr]
  /\ date' = [date EXCEPT ![p] = now + 1]
  /\ len' = [len EXCEPT ![p] = 0]
  /\ pendingOrder' = [pendingOrder EXCEPT ![p] = NoOrder]
  /\ params' = [params EXCEPT ![p] = <<>>]
  /\ orders' = [orders EXCEPT ![p] = <<>>]
  /\ attempt' = [attempt EXCEPT ![p] = 0]
  /\ IF tooManyItems(its)
     THEN /\ pc' = [pc EXCEPT ![p] = "failed"]
          /\ error' = [error EXCEPT ![p] = "Cannot withdraw that many items at once"]
     ELSE /\ pc' = [pc EXCEPT ![p] = "lookup"]
          /\ error' = [error EXCEPT ![p] = "none"]
  /\ UNCHANGED <<orderTable, inventory>>

\* A caller invokes withdraw(account, items).
Withdraw(p, addr) == \E its \in Submissions : WithdrawOf(p, its, addr)

\* getPendingOrder resolves and the call runs up to the transactWrite.
Plan(p) ==
  /\ pc[p] = "lookup"
  /\ LET read == getPendingOrder(orderTable)
         found == read # NoOrder
         l == Len(read.items)
         i == IF found THEN itemsToAdd(items[p], l) ELSE <<>>
         status == statusOfPending(items[p], l)
         updated == [pk |-> read.pk, status |-> status, items |-> read.items \o i]
         existingOps == IF found
                        THEN <<OrderUpdate(read.pk, status, i)>>
                               \o getInventoryItemUpdates(i)
                        ELSE <<>>
         existingOrders == IF found THEN <<[tcgOrder |-> updated, items |-> i]>>
                           ELSE <<>>
         chunks == itemsForNewOrders(items[p], 0)
         created == [n \in 1..Len(chunks) |-> newTcgOrder(date[p], n, chunks[n])]
         newOps == Flatten([n \in 1..Len(chunks) |->
                      <<OrderPut(created[n])>> \o getInventoryItemUpdates(chunks[n])])
         newOrders == [n \in 1..Len(chunks) |->
                         [tcgOrder |-> created[n], items |-> chunks[n]]]
     IN  /\ len' = [len EXCEPT ![p] = l]
         /\ pendingOrder' = [pendingOrder EXCEPT ![p] = IF found THEN updated ELSE NoOrder]
         /\ IF missingShippingAddress(p)
            THEN /\ pc' = [pc EXCEPT ![p] = "failed"]
                 /\ error' = [error EXCEPT ![p] = "shipping address invalid"]
                 /\ params' = [params EXCEPT ![p] = existingOps]
                 /\ orders' = [orders EXCEPT ![p] = existingOrders]
                 /\ itemStatus' = [itemStatus EXCEPT ![p] =
                       [n \in 1..Len(items[p]) |->
                          IF n <= Len(i) THEN WITHDRAWING ELSE UNFULFILLED]]
            ELSE /\ pc' = [pc EXCEPT ![p] = "write"]
                 /\ error' = error
                 /\ params' = [params EXCEPT ![p] = existingOps \o newOps]
                 /\ orders' = [orders EXCEPT ![p] = existingOrders \o newOrders]
                 /\ itemStatus' = [itemStatus EXCEPT ![p] =
                       [n \in 1..Len(items[p]) |-> WITHDRAWING]]
  /\ UNCHANGED <<orderTable, inventory, now, nextItem, items, shippingAddress, date,
                 attempt>>

\* dynamoDb.transactWrite(params): every condition holds against the stored
\* records, and all writes are applied, in the order submitted.
TransactWriteCommits(p) ==
  /\ pc[p] = "write"
  /\ AllConditionsHold(params[p], orderTable, inventory)
  /\ orderTable' = OrdersAfter(params[p], orderTable)
  /\ inventory' = InventoryAfter(params[p], inventory)
  /\ pc' = [pc EXCEPT ![p] = "returned"]
  /\ UNCHANGED <<now, nextItem, items, itemStatus, shippingAddress, date, len,
                 pendingOrder, params, orders, error, attempt>>

\* the operations of a write set that precede its first failed condition
PrefixBeforeFailure(ops, table, inv) ==
  LET bad == {n \in 1..Len(ops) : ~ConditionHolds(ops[n], table, inv)}
      first == CHOOSE n \in bad : \A m \in bad : n <= m
  IN  SubSeq(ops, 1, first - 1)

\* a write that is not transactional: the operations are applied one by one
\* until a condition fails
TransactWriteCancelledPartial(p) ==
  /\ pc[p] = "write"
  /\ ~AllConditionsHold(params[p], orderTable, inventory)
  /\ orderTable' = OrdersAfter(PrefixBeforeFailure(params[p], orderTable, inventory),
                               orderTable)
  /\ inventory' = InventoryAfter(PrefixBeforeFailure(params[p], orderTable, inventory),
                                 inventory)
  /\ pc' = [pc EXCEPT ![p] = "failed"]
  /\ error' = [error EXCEPT ![p] = "TransactionCanceled"]
  /\ UNCHANGED <<now, nextItem, items, itemStatus,
                 shippingAddress, date, len, pendingOrder, params, orders, attempt>>

\* dynamoDb.transactWrite(params): a condition fails, nothing is applied.
TransactWriteCancelled(p) ==
  /\ pc[p] = "write"
  /\ ~AllConditionsHold(params[p], orderTable, inventory)
  /\ pc' = [pc EXCEPT ![p] = "failed"]
  /\ error' = [error EXCEPT ![p] = "TransactionCanceled"]
  /\ UNCHANGED <<orderTable, inventory, now, nextItem, items, itemStatus,
                 shippingAddress, date, len, pendingOrder, params, orders, attempt>>

\* dynamoDb.transactWrite(params): the store refuses a request that names one
\* record in two of its operations, nothing is applied.  Whether a store
\* behind this interface applies or refuses such a request is not fixed by
\* the program, so both outcomes are possible here.
TransactWriteRejected(p) ==
  /\ pc[p] = "write"
  /\ DuplicateTargets(params[p])
  /\ pc' = [pc EXCEPT ![p] = "failed"]
  /\ error' = [error EXCEPT ![p] = "ValidationException"]
  /\ UNCHANGED <<orderTable, inventory, now, nextItem, items, itemStatus,
                 shippingAddress, date, len, pendingOrder, params, orders, attempt>>

TransactWrite(p) ==
  \/ TransactWriteCommits(p)
  \/ TransactWriteCancelled(p)
  \/ TransactWriteRejected(p)

Next ==
  \/ \E p \in Callers, addr \in BOOLEAN : Withdraw(p, addr)
  \/ \E p \in Callers : Plan(p)
  \/ \E p \in Callers : TransactWrite(p)

Spec == Init /\ [][Next]_vars

\* ------------------------------------------- calls at the size limit of 200
\* As Init, with an inventory large enough for a call of 201 items.
InitLarge ==
  /\ \E c \in InitialCounts :
       /\ orderTable = IF c = 0 THEN <<>>
                       ELSE (Ulid(0, 1) :> newTcgOrder(0, 1, [n \in 1..c |-> n]))
       /\ inventory = [it \in 1..LargeItems |->
                         IF it <= c THEN WITHDRAWING ELSE UNFULFILLED]
       /\ nextItem = c + 1
  /\ now = 0
  /\ pc = [p \in Callers |-> "idle"]
  /\ items = [p \in Callers |-> <<>>]
  /\ itemStatus = [p \in Callers |-> <<>>]
  /\ shippingAddress = [p \in Callers |-> TRUE]
  /\ date = [p \in Callers |-> 0]
  /\ len = [p \in Callers |-> 0]
  /\ pendingOrder = [p \in Callers |-> NoOrder]
  /\ params = [p \in Callers |-> <<>>]
  /\ orders = [p \in Callers |-> <<>>]
  /\ error = [p \in Callers |-> "none"]
  /\ attempt = [p \in Callers |-> 0]

\* lists of 200 and 201 items: fresh items, or the list of a call already made
LargeSubmissions ==
  {[n \in 1..k |-> nextItem + n - 1] :
       k \in {c \in LargeCounts : nextItem + c - 1 <= LargeItems}}
    \cup {items[q] : q \in {c \in Callers : items[c] # <<>>}}

\* A caller invokes withdraw(account, items) with 200 or 201 items.
WithdrawLarge(p, addr) ==
  \E its \in LargeSubmissions : WithdrawOf(p, its, addr)

NextLarge ==
  \/ \E p \in Callers, addr \in BOOLEAN : WithdrawLarge(p, addr)
  \/ \E p \in Callers : Plan(p)
  \/ \E p \in Callers : TransactWrite(p)

SpecLarge == InitLarge /\ [][NextLarge]_vars

\* ------------------------------------ the processes around the withdrawals
\* the variables of the callers
callerVars == <<pc, items, itemStatus, shippingAddress, date, len, pendingOrder,
                params, orders, error, attempt>>

\* The cron job moves a PENDING order to PROCESSING when it hits 24 hours.
OrderTimesOut ==
  \E k \in DOMAIN orderTable :
     /\ orderTable[k].status = PENDING
     /\ orderTable' = [orderTable EXCEPT ![k].status = PROCESSING]
     /\ UNCHANGED <<inventory, now, nextItem, callerVars>>

\* A PENDING order is cancelled.
OrderCancelled ==
  \E k \in DOMAIN orderTable :
     /\ orderTable[k].status = PENDING
     /\ orderTable' = [orderTable EXCEPT ![k].status = CANCELLED]
     /\ UNCHANGED <<inventory, now, nextItem, callerVars>>

\* lists of 3 and 10 items: fresh items, or the list of a call already made
EnvSubmissions ==
  {[n \in 1..k |-> nextItem + n - 1] :
       k \in {c \in EnvCounts : nextItem + c - 1 <= NumItems}}
    \cup {items[q] : q \in {c \in Callers : items[c] # <<>>}}

\* A caller invokes withdraw(account, items) with 3 or 10 items.
WithdrawEnv(p, addr) ==
  \E its \in EnvSubmissions : WithdrawOf(p, its, addr)

\* The caller whose write was cancelled because the order it read is no longer
\* PENDING calls withdraw again with the same items and address; the call
\* starts over from the size check and reads the tables afresh.
Retry(p) ==
  /\ pc[p] = "failed"
  /\ error[p] = "TransactionCanceled"
  /\ pendingOrder[p] # NoOrder
  /\ orderTable[pendingOrder[p].pk].status # PENDING
  /\ attempt[p] < MaxRetries
  /\ attempt' = [attempt EXCEPT ![p] = attempt[p] + 1]
  /\ now' = now + 1
  /\ itemStatus' = [itemStatus EXCEPT ![p] = [n \in 1..Len(items[p]) |-> UNFULFILLED]]
  /\ date' = [date EXCEPT ![p] = now + 1]
  /\ len' = [len EXCEPT ![p] = 0]
  /\ pendingOrder' = [pendingOrder EXCEPT ![p] = NoOrder]
  /\ params' = [params EXCEPT ![p] = <<>>]
  /\ orders' = [orders EXCEPT ![p] = <<>>]
  /\ IF tooManyItems(items[p])
     THEN /\ pc' = [pc EXCEPT ![p] = "failed"]
          /\ error' = [error EXCEPT ![p] = "Cannot withdraw that many items at once"]
     ELSE /\ pc' = [pc EXCEPT ![p] = "lookup"]
          /\ error' = [error EXCEPT ![p] = "none"]
  /\ UNCHANGED <<orderTable, inventory, nextItem, items, shippingAddress>>

\* As Init, with a PENDING order of 3 items.
InitEnv ==
  /\ \E c \in EnvInitialCounts :
       /\ orderTable = (Ulid(0, 1) :> newTcgOrder(0, 1, [n \in 1..c |-> n]))
       /\ inventory = [it \in 1..NumItems |->
                         IF it <= c THEN WITHDRAWING ELSE UNFULFILLED]
       /\ nextItem = c + 1
  /\ now = 0
  /\ pc = [p \in Callers |-> "idle"]
  /\ items = [p \in Callers |-> <<>>]
  /\ itemStatus = [p \in Callers |-> <<>>]
  /\ shippingAddress = [p \in Callers |-> TRUE]
  /\ date = [p \in Callers |-> 0]
  /\ len = [p \in Callers |-> 0]
  /\ pendingOrder = [p \in Callers |-> NoOrder]
  /\ params = [p \in Callers |-> <<>>]
  /\ orders = [p \in Callers |-> <<>>]
  /\ error = [p \in Callers |-> "none"]
  /\ attempt = [p \in Callers |-> 0]

NextEnv ==
  \/ \E p \in Callers, addr \in BOOLEAN : WithdrawEnv(p, addr)
  \/ \E p \in Callers : Plan(p)
  \/ \E p \in Callers : TransactWrite(p)
  \/ \E p \in Callers : Retry(p)
  \/ OrderTimesOut
  \/ OrderCancelled

SpecEnv == InitEnv /\ [][NextEnv]_vars

\* ------------------------------------------------------------ properties
PendingOrders == {k \in DOMAIN orderTable : orderTable[k].status = PENDING}

\* the call of p has built its write set (lines 23-124 have run without a throw)
Planned(p) == pc[p] \in {"write", "returned"}

\* number of positions at which item it occurs in sequence s
Occurrences(s, it) == Cardinality({n \in 1..Len(s) : s[n] = it})

\* the call of p found a PENDING order at lookup
Found(p) == pendingOrder[p] # NoOrder

\* the entries of orders[p] for newly created orders
NewEntries(p) == IF Found(p) THEN Tail(orders[p]) ELSE orders[p]

\* the items the call of p appended to the order it found
Appended(p) == IF Found(p) THEN orders[p][1].items ELSE <<>>

\* C1: at most one order of the account has status PENDING.
C1_AtMostOnePending == Cardinality(PendingOrders) <= 1

C3_PendingBelowCapacity ==
  \A k \in PendingOrders : Len(orderTable[k].items) < SHIPPING_MAX_ITEMS

Racing(p, q) ==
  /\ p # q
  /\ pc[p] = "write" /\ Found(p) /\ items[p] # <<>>
  /\ pc[q] = "write" /\ Found(q) /\ items[q] # <<>>
  /\ pendingOrder[p].pk = pendingOrder[q].pk
  /\ Range(items[p]) \cap Range(items[q]) = {}
  /\ \A it \in Range(items[p]) \cup Range(items[q]) : inventory[it] = UNFULFILLED

\* C6: when two calls that read the same PENDING order submit their writes,
\* the first to commit makes the write of the other fail on a precondition.
C6_ExactlyOneCommits ==
  [][\A p, q \in Callers :
        (Racing(p, q) /\ pc'[p] = "returned") =>
           ~AllConditionsHold(params[q], orderTable', inventory')]_vars

\* every operation of the write set of p shows in the tables
AllApplied(p) ==
  \A n \in 1..Len(params[p]) :
     LET o == params[p][n]
     IN  IF o.table = "INVENTORY" THEN inventory[o.key[1]] = o.status
         ELSE /\ o.key \in DOMAIN orderTable
              /\ orderTable[o.key].status = o.status
              /\ LET stored == orderTable[o.key].items
                 IN  /\ Len(stored) >= Len(o.items)
                     /\ SubSeq(stored, Len(stored) - Len(o.items) + 1, Len(stored))
                          = o.items

\* C7: the writes of one call are applied atomically: a call that ends in an
\* error leaves both tables as they were, and the tables change only in the
\* step in which a call succeeds, by all of its writes at once.
C7_AllOrNothing ==
  [][\A p \in Callers : pc'[p] # pc[p] =>
        IF pc'[p] = "returned" THEN AllApplied(p)'
        ELSE orderTable' = orderTable /\ inventory' = inventory]_vars

\* C7 witness: a write was cancelled on a failed precondition
C7_Witness ==
  \E p \in Callers :
     /\ pc[p] = "failed" /\ error[p] = "TransactionCanceled"
     /\ Len(params[p]) > 1
     /\ \E n \in 1..Len(params[p]) : ConditionHolds(params[p][n], orderTable, inventory)
     /\ \E n \in 1..Len(params[p]) : ~ConditionHolds(params[p][n], orderTable, inventory)

\* C8: with a PENDING order of n < 15 items found and k items submitted, the
\* order update appends the first min(15 - n, k) items and writes PROCESSING
\* exactly when that fills the order.
C8_FillExisting ==
  \A p \in Callers :
     (Planned(p) /\ Found(p) /\ len[p] < SHIPPING_MAX_ITEMS) =>
        LET room == SHIPPING_MAX_ITEMS - len[p]
            take == Min(room, Len(items[p]))
        IN  /\ params[p][1].items = SubSeq(items[p], 1, take)
            /\ params[p][1].status = IF take = room THEN PROCESSING ELSE PENDING

\* the consecutive chunks of at most 15 of a sequence
RECURSIVE ChunksOf(_)
ChunksOf(s) ==
  IF s = <<>> THEN <<>>
  ELSE <<SubSeq(s, 1, Min(SHIPPING_MAX_ITEMS, Len(s)))>>
         \o ChunksOf(SubSeq(s, Min(SHIPPING_MAX_ITEMS, Len(s)) + 1, Len(s)))

\* C9: the items not appended to the existing order are split in order into
\* chunks of 15, one new order per chunk, PROCESSING when it holds 15 items
\* and PENDING otherwise.
C9_NewOrders ==
  \A p \in Callers : Planned(p) =>
     LET rest == SubSeq(items[p], Len(Appended(p)) + 1, Len(items[p]))
         expected == ChunksOf(rest)
     IN  /\ Len(NewEntries(p)) = Len(expected)
         /\ \A n \in 1..Len(expected) :
               /\ NewEntries(p)[n].items = expected[n]
               /\ NewEntries(p)[n].tcgOrder.items = expected[n]
               /\ NewEntries(p)[n].tcgOrder.status =
                    IF Len(expected[n]) = SHIPPING_MAX_ITEMS
                    THEN PROCESSING ELSE PENDING

NoNewOrderNeeded(p) ==
  \/ items[p] = <<>>
  \/ Found(p) /\ Len(items[p]) <= SHIPPING_MAX_ITEMS - len[p]

AddressError(p) == pc[p] = "failed" /\ error[p] = "shipping address invalid"

\* C11: a call without a shipping address that needs no new order does not
\* fail with the missing-shipping-address error.
C11_NoAddressNeeded ==
  \A p \in Callers : AddressError(p) => ~NoNewOrderNeeded(p)

\* C12: a call without a shipping address that would create a new order
\* fails with the missing-shipping-address error at the end of its planning
\* step, without reaching the write, and both tables stay as they were.
C12_AddressRequired ==
  [][\A p \in Callers :
        (pc[p] = "lookup" /\ pc'[p] # "lookup"
           /\ ~shippingAddress[p] /\ ~NoNewOrderNeeded(p)') =>
        /\ AddressError(p)'
        /\ orderTable' = orderTable
        /\ inventory' = inventory]_vars

\* C12 witness: no existing order, 5 items, no shipping address: the call
\* failed and nothing was stored
C12_Witness ==
  \E p \in Callers :
     /\ AddressError(p) /\ ~shippingAddress[p]
     /\ ~Found(p) /\ Len(items[p]) = 5
     /\ orderTable = <<>>
     /\ \A it \in Range(items[p]) : inventory[it] = UNFULFILLED

\* the INVENTORY operations of the write set of p that target item it
ItemUpdates(p, it) ==
  {n \in 1..Len(params[p]) :
     params[p][n].table = "INVENTORY" /\ params[p][n].key[1] = it}

\* C15: the write set of a call holds exactly one item update for each
\* submitted item, conditioned on UNFULFILLED and setting WITHDRAWING, and no
\* two of its operations target the same item.
C15_OneUpdatePerItem ==
  \A p \in Callers : Planned(p) =>
     /\ \A it \in Range(items[p]) : Cardinality(ItemUpdates(p, it)) = 1
     /\ \A n \in 1..Len(params[p]) : params[p][n].table = "INVENTORY" =>
           /\ params[p][n].key[1] \in Range(items[p])
           /\ params[p][n].expected = UNFULFILLED
           /\ params[p][n].status = WITHDRAWING

\* number of times item it is referenced by the orders of a table
References(table, it) ==
  [k \in DOMAIN table |-> Occurrences(table[k].items, it)]

\* C17: a write with a submitted item that is not UNFULFILLED aborts and
\* changes nothing; a stored item status only moves from UNFULFILLED to
\* WITHDRAWING; an item that is WITHDRAWING is not added to any order.
C17_OnlyUnfulfilledItems ==
  [][/\ \A p \in Callers :
          (pc[p] = "write" /\ pc'[p] # "write"
             /\ \E it \in Range(items[p]) : inventory[it] # UNFULFILLED) =>
          /\ pc'[p] = "failed"
          /\ orderTable' = orderTable
          /\ inventory' = inventory
     /\ \A it \in DOMAIN inventory :
          /\ inventory'[it] # inventory[it] =>
               inventory[it] = UNFULFILLED /\ inventory'[it] = WITHDRAWING
          /\ inventory[it] # UNFULFILLED =>
               \A k \in DOMAIN orderTable' :
                  Occurrences(orderTable'[k].items, it) =
                    IF k \in DOMAIN orderTable
                    THEN Occurrences(orderTable[k].items, it) ELSE 0]_vars

\* C17 witness: a write was cancelled because a submitted item had already
\* been taken by another withdrawal
C17_Witness ==
  \E p \in Callers :
     /\ pc[p] = "failed" /\ error[p] = "TransactionCanceled"
     /\ items[p] # <<>>
     /\ \A it \in Range(items[p]) : inventory[it] = WITHDRAWING
     /\ \E q \in Callers \ {p} : pc[q] = "returned" /\ items[q] = items[p]

\* C18: a call that finds a PENDING order with 15 items or more fails before
\* the write.
C18_FullPendingIsFault ==
  \A p \in Callers : (Found(p) /\ len[p] >= SHIPPING_MAX_ITEMS) => ~Planned(p)

\* C19: a call with no items builds an empty write set and an empty orders
\* list, and does not fail on the condition of the PENDING order.
C19_EmptyIsNoOp ==
  \A p \in Callers : items[p] = <<>> =>
     /\ Planned(p) => (params[p] = <<>> /\ orders[p] = <<>>)
     /\ error[p] # "TransactionCanceled"

\* C20: when a call fails after the size check, every item object passed in
\* still has status UNFULFILLED (the orders list is not handed to the caller
\* on a throw, so the item objects are what the caller can see).
C20_FailureLeavesItemObjects ==
  \A p \in Callers : (pc[p] = "failed" /\ ~tooManyItems(items[p])) =>
     \A n \in 1..Len(items[p]) : itemStatus[p][n] = UNFULFILLED

TooManyError(p) ==
  pc[p] = "failed" /\ error[p] = "Cannot withdraw that many items at once"

\* C13: a call with more than 200 items fails with the too-many-items error
\* in its first step, with no lookup made, no write set built and both tables
\* unchanged; a call with 200 items goes on to the lookup.
C13_SizeLimit ==
  [][\A p \in Callers :
        (pc[p] \in {"idle", "returned", "failed"} /\ pc'[p] # pc[p]) =>
           /\ Len(items'[p]) > MaxItemsPerCall =>
                 /\ TooManyError(p)'
                 /\ pendingOrder'[p] = NoOrder /\ params'[p] = <<>>
                 /\ orderTable' = orderTable /\ inventory' = inventory
           /\ Len(items'[p]) <= MaxItemsPerCall =>
                 pc'[p] = "lookup" /\ error'[p] = "none"]_vars

\* C13 witness: a call of 201 items was refused although the account has a
\* PENDING order and no shipping address, and a call of 200 items committed
C13_Witness ==
  \E p, q \in Callers :
     /\ TooManyError(p) /\ Len(items[p]) = MaxItemsPerCall + 1
     /\ ~shippingAddress[p] /\ PendingOrders # {}
     /\ pc[q] = "returned" /\ Len(items[q]) = MaxItemsPerCall

\* C16: no step changes an order whose stored status is not PENDING; and a
\* write that runs when the order its call found at lookup is no longer
\* PENDING fails and leaves both tables unchanged.
C16_NonPendingUntouched ==
  [][/\ \A k \in DOMAIN orderTable :
          orderTable[k].status # PENDING =>
            k \in DOMAIN orderTable' /\ orderTable'[k] = orderTable[k]
     /\ \A p \in Callers :
          (pc[p] = "write" /\ pc'[p] # "write" /\ Found(p)
             /\ orderTable[pendingOrder[p].pk].status # PENDING) =>
          /\ pc'[p] = "failed"
          /\ orderTable' = orderTable
          /\ inventory' = inventory]_vars

\* a write was cancelled only because the order found at lookup had been
\* moved to PROCESSING or CANCELLED; the submitted items are still UNFULFILLED
C16_Witness ==
  \E p \in Callers :
     /\ pc[p] = "failed" /\ error[p] = "TransactionCanceled"
     /\ Found(p)
     /\ orderTable[pendingOrder[p].pk].status \in {PROCESSING, CANCELLED}
     /\ Len(orderTable[pendingOrder[p].pk].items) = len[p]
     /\ items[p] # <<>>
     /\ \A it \in Range(items[p]) : inventory[it] = UNFULFILLED

\* the tables are as the call of p read them at lookup
FreshRead(p) ==
  LET stored == getPendingOrder(orderTable)
  IN  IF Found(p)
      THEN stored.pk = pendingOrder[p].pk /\ Len(stored.items) = len[p]
      ELSE stored = NoOrder

\* C14: the write of a retried call, run against the state the retry read
\* and with all its items still UNFULFILLED, commits.
C14_RetryCommits ==
  [][\A p \in Callers :
        (attempt[p] > 0 /\ pc[p] = "write" /\ pc'[p] # "write"
           /\ FreshRead(p)
           /\ \A it \in Range(items[p]) : inventory[it] = UNFULFILLED) =>
        pc'[p] = "returned"]_vars

====
